---- MODULE Spec2Model ----
(***************************************************************************)
(* Model of the Legucid front end: the upload component's normalisation of *)
(* the backend response (processResponseData), the time-saved estimate     *)
(* (calculateTimeSaved, in the upload component and in the dashboard) and  *)
(* the upload handler that stores the normalised record in the shared      *)
(* DocumentAnalysis context.                                               *)
(***************************************************************************)
EXTENDS Integers, Sequences, FiniteSets, TLC

\* ------------------------------------------------------------------------
\* Bounds of the model
\* ------------------------------------------------------------------------
MaxPageCount == 3000
MaxTotalClauses == 10
MaxClauses == 2
MaxCount == 1
MaxPageField == 2
\* files the user picks or drops in the runs with more than one upload
MaxUploads == 2
\* clicks on the retry button of the audio page
MaxRetries == 1
\* clauses of a record opened in the detailed view, characters of a query
MaxProposalTimers == 1    \* pending timers of generateCounterProposal
MaxSearchClauses == 2
MaxQueryLen == 2

\* ------------------------------------------------------------------------
\* JavaScript values: an optional property is <<>> (absent/undefined) or <<v>>
\* ------------------------------------------------------------------------
None == <<>>
Some(v) == <<v>>

\* (x as number) || d : undefined and 0 are falsy
OrNumber(o, d) == IF o = None THEN d ELSE IF o[1] = 0 THEN d ELSE o[1]

\* (x as string) || d : undefined and "" are falsy
OrString(o, d) == IF o = None THEN d ELSE IF o[1] = "" THEN d ELSE o[1]

\* Math.floor(a / b) on exact quotients, b # 0
FloorDiv(a, b) == IF b > 0 THEN a \div b ELSE (0 - a) \div (0 - b)

\* ------------------------------------------------------------------------
\* calculateTimeSaved (upload component)
\* ------------------------------------------------------------------------
\* S = pages * 2 + clauses * 1.5, kept as 2S so that it stays an integer
TwiceS(pages, clauses) == pages * 4 + clauses * 3

\* timeSavedHours = 1 + S / (S + 50) as the fraction <<numerator, denominator>>
\* (variant: 1 + 50 / (S + 50))
timeSavedHoursDecreasing(pages, clauses) ==
    <<TwiceS(pages, clauses) + 200, TwiceS(pages, clauses) + 100>>
timeSavedHours(pages, clauses) ==
    <<2 * TwiceS(pages, clauses) + 100, TwiceS(pages, clauses) + 100>>

\* hours = Math.floor(timeSavedHours)
hoursOf(t) == FloorDiv(t[1], t[2])

\* The values of 2S at which (timeSavedHours - hours) * 60 is exactly k + 1/2
\* in real arithmetic and the IEEE-754 double evaluation of the expression
\* falls just below it, so that Math.round gives k (190/240*60 is 47.4999...);
\* at every other 2S in -99..40000 the double result rounds as the exact one.
RoundsBelowHalf == {380}

\* minutes = Math.round((timeSavedHours - hours) * 60), Math.round(x) being
\* floor(x + 0.5)
\* (variant: Math.floor in place of Math.round)
minutesOfFloor(t) == FloorDiv(60 * (t[1] - hoursOf(t) * t[2]), t[2])
minutesOf(t) ==
    LET exact == FloorDiv(120 * (t[1] - hoursOf(t) * t[2]) + t[2], 2 * t[2])
    IN  IF (t[2] - 100) \in RoundsBelowHalf THEN exact - 1 ELSE exact

\* `${hours} hr ${minutes} min`
FormatTimeSaved(hours, minutes) ==
    ToString(hours) \o " hr " \o ToString(minutes) \o " min"

calculateTimeSaved(pages, clauses) ==
    LET t == timeSavedHours(pages, clauses)
    IN  IF t[2] = 0
        THEN "-Infinity hr NaN min"
        ELSE FormatTimeSaved(hoursOf(t), minutesOf(t))

\* ------------------------------------------------------------------------
\* calculateTimeSaved (dashboard copy)
\* ------------------------------------------------------------------------
dashboardCalculateTimeSaved(pages, clauses) ==
    LET S2 == (pages * 4) + (clauses * 3)
        t == <<2 * S2 + 100, S2 + 100>>
    IN  IF t[2] = 0
        THEN "-Infinity hr NaN min"
        ELSE FormatTimeSaved(hoursOf(t), minutesOf(t))

\* ------------------------------------------------------------------------
\* processResponseData (upload component)
\* ------------------------------------------------------------------------
\* (x as Record) || {} : the empty object has every property absent
EmptyRiskAssessment ==
    [document_name |-> None, clause_assessments |-> None, gcs_uri |-> None]
EmptyRiskSummary ==
    [high_risk_clauses |-> None, medium_risk_clauses |-> None,
     low_risk_clauses |-> None, total_clauses_assessed |-> None]
OrObject(o, empty) == IF o = None THEN empty ELSE o[1]

\* (x as Array) || []
OrArray(o) == IF o = None THEN <<>> ELSE o[1]

\* clauseAssessments.filter((clause) => clause.risk_level === level)
FilterByLevel(clauseAssessments, level) ==
    SelectSeq(clauseAssessments, LAMBDA clause : clause.risk_level = level)

DefaultDescription(level) ==
    CASE level = "high" -> "High risk clause identified"
      [] level = "medium" -> "Medium risk clause identified"
      [] level = "low" -> "Low risk clause identified"

\* list.map((clause, index) => ({ id, name, description, risk })) over the
\* clauses of one level
\* (variant: index taken in clauseAssessments, not in the filtered list)
ImpactsGlobalIndex(clauseAssessments, level) ==
    LET at == SelectSeq([i \in 1..Len(clauseAssessments) |-> i],
                        LAMBDA i : clauseAssessments[i].risk_level = level)
    IN  [k \in 1..Len(at) |->
            [id |-> level \o "-" \o ToString(at[k] - 1),
             name |-> "Clause " \o ToString(at[k]),
             description |-> OrString(clauseAssessments[at[k]].reasoning,
                                      DefaultDescription(level)),
             risk |-> level]]
Impacts(clauseAssessments, level) ==
    LET list == FilterByLevel(clauseAssessments, level)
    IN  [index \in 1..Len(list) |->
            [id |-> level \o "-" \o ToString(index - 1),
             name |-> "Clause " \o ToString(index),
             description |-> OrString(list[index].reasoning,
                                      DefaultDescription(level)),
             risk |-> level]]

\* one riskData.push({ name, value, color, impacts })
Bucket(name, color, clauseAssessments, level) ==
    [name |-> name,
     value |-> Len(FilterByLevel(clauseAssessments, level)),
     color |-> color,
     impacts |-> Impacts(clauseAssessments, level)]

\* riskData after the three guarded pushes
RiskDataOf(riskSummary, clauseAssessments) ==
    (IF OrNumber(riskSummary.high_risk_clauses, 0) > 0
        THEN <<Bucket("High", "#ef4444", clauseAssessments, "high")>>
        ELSE <<>>)
    \o (IF OrNumber(riskSummary.medium_risk_clauses, 0) > 0
        THEN <<Bucket("Medium", "#eab308", clauseAssessments, "medium")>>
        ELSE <<>>)
    \o (IF OrNumber(riskSummary.low_risk_clauses, 0) > 0
        THEN <<Bucket("Low", "#22c55e", clauseAssessments, "low")>>
        ELSE <<>>)

\* riskData.find((item) => item.name === name)?.impacts || []
FindImpacts(riskData, name) ==
    LET found == SelectSeq(riskData, LAMBDA item : item.name = name)
    IN  IF found = <<>> THEN <<>> ELSE found[1].impacts

\* (riskAssessment.document_name as string) || file.name
\* (variant: no fallback to the file's name)
documentNameNoFallback(riskAssessment, file) ==
    OrString(riskAssessment.document_name, "")
documentNameOf(riskAssessment, file) ==
    OrString(riskAssessment.document_name, file.name)

processResponseData(responseData, file, now) ==
    LET riskAssessment == OrObject(responseData.risk_assessment, EmptyRiskAssessment)
        riskSummary == OrObject(responseData.risk_summary, EmptyRiskSummary)
        highRiskClauses == OrNumber(riskSummary.high_risk_clauses, 0)
        mediumRiskClauses == OrNumber(riskSummary.medium_risk_clauses, 0)
        totalClausesAssessed == OrNumber(riskSummary.total_clauses_assessed, 0)
        clauseAssessments == OrArray(riskAssessment.clause_assessments)
        riskData == RiskDataOf(riskSummary, clauseAssessments)
        flaggedClauses == highRiskClauses + mediumRiskClauses
        gcsUri == OrString(responseData.gcs_uri, "")
        pages == OrNumber(responseData.page_count, 24)
    IN  [document_name |-> documentNameOf(riskAssessment, file),
         total_clauses |-> totalClausesAssessed,
         flagged_clauses |-> flaggedClauses,
         time_saved |-> calculateTimeSaved(pages, totalClausesAssessed),
         risk_assessment |->
            [document_name |-> riskAssessment.document_name,
             clause_assessments |-> riskAssessment.clause_assessments,
             gcs_uri |-> gcsUri,
             high |-> FindImpacts(riskData, "High"),
             medium |-> FindImpacts(riskData, "Medium"),
             low |-> FindImpacts(riskData, "Low")],
         risk_data |-> riskData,
         upload_time |-> now,
         page_count |-> pages]

\* processResponseData throws a TypeError: one of the three guarded blocks
\* calls clauseAssessments.filter on a value that is not an array
processResponseDataThrows(responseData) ==
    LET riskAssessment == OrObject(responseData.risk_assessment, EmptyRiskAssessment)
        riskSummary == OrObject(responseData.risk_summary, EmptyRiskSummary)
    IN  /\ Len(riskAssessment.clause_assessments) = 2
        /\ \/ OrNumber(riskSummary.high_risk_clauses, 0) > 0
           \/ OrNumber(riskSummary.medium_risk_clauses, 0) > 0
           \/ OrNumber(riskSummary.low_risk_clauses, 0) > 0

\* ------------------------------------------------------------------------
\* Dashboard and RiskPieChart: what they compute from the stored record
\* ------------------------------------------------------------------------
\* the default buckets of the dashboard
DefaultRiskData ==
    <<[name |-> "High", value |-> 0, color |-> "#ef4444", impacts |-> <<>>],
      [name |-> "Medium", value |-> 0, color |-> "#eab308", impacts |-> <<>>],
      [name |-> "Low", value |-> 0, color |-> "#22c55e", impacts |-> <<>>]>>

\* x || d for a number x
NumberOr(x, d) == IF x = 0 THEN d ELSE x

\* riskData.reduce((sum, item) => sum + item.value, 0)
RECURSIVE SumOfValues(_)
SumOfValues(riskData) ==
    IF riskData = <<>> THEN 0 ELSE Head(riskData).value + SumOfValues(Tail(riskData))

\* riskData = analysisData?.risk_data || [defaults]; an array is never falsy
dashboardRiskData(data) == IF data = None THEN DefaultRiskData ELSE data[1].risk_data

dashboardTotalImpacts(data) == SumOfValues(dashboardRiskData(data))

\* totalClauses = analysisData?.total_clauses || totalImpacts
dashboardTotalClauses(data) ==
    IF data = None THEN dashboardTotalImpacts(data)
    ELSE NumberOr(data[1].total_clauses, dashboardTotalImpacts(data))

\* flaggedClauses = analysisData?.flagged_clauses || (High and Medium values)
dashboardFlaggedClauses(data) ==
    LET flagged == SumOfValues(SelectSeq(dashboardRiskData(data),
                                         LAMBDA item : item.name = "High"
                                                       \/ item.name = "Medium"))
    IN  IF data = None THEN flagged ELSE NumberOr(data[1].flagged_clauses, flagged)

\* pageCount = analysisData?.page_count || 24
dashboardPageCount(data) == IF data = None THEN 24 ELSE NumberOr(data[1].page_count, 24)

\* timeSaved = analysisData ? calculateTimeSaved(pageCount, totalClauses) : '2.5h'
dashboardTimeSaved(data) ==
    IF data = None THEN "2.5h"
    ELSE dashboardCalculateTimeSaved(dashboardPageCount(data),
                                     dashboardTotalClauses(data))

\* RiskPieChart: totalImpacts of the data the dashboard hands it
pieTotalImpacts(data) == SumOfValues(data)

\* RiskPieChart returns the "No risk data available" block before the chart
PieChartReturnsEarly(data) == Len(data) = 0 \/ pieTotalImpacts(data) = 0

\* the chart with its tooltip is rendered, whose text divides by totalImpacts
PieChartDivides(data) == ~ PieChartReturnsEarly(data)


\* ------------------------------------------------------------------------
\* Inputs: files the user picks and responses of the backend
\* ------------------------------------------------------------------------
RiskLevelValues == {"high", "medium", "low", "critical"}
ReasoningValues == {None, Some("may be terminated at will")}
ClauseAssessments == [risk_level : RiskLevelValues, reasoning : ReasoningValues]

SeqsUpTo(S, n) == UNION {[1..k -> S] : k \in 0..n}

SummaryCounts == {None} \cup {Some(n) : n \in 0..MaxCount}
RiskSummaries ==
    [high_risk_clauses : SummaryCounts, medium_risk_clauses : SummaryCounts,
     low_risk_clauses : SummaryCounts, total_clauses_assessed : SummaryCounts]

\* responses that vary the clauses and the summary counts
ClauseResponses ==
    [risk_assessment :
        {None} \cup
        {Some(ra) : ra \in
            [document_name : {None},
             clause_assessments :
                {None} \cup {Some(cs) : cs \in SeqsUpTo(ClauseAssessments, MaxClauses)},
             gcs_uri : {None}]},
     risk_summary : {None} \cup {Some(rs) : rs \in RiskSummaries},
     page_count : {None},
     gcs_uri : {None}]

\* responses that vary the document's name, page count and storage locator
HeaderResponses ==
    [risk_assessment :
        {None} \cup
        {Some(ra) : ra \in
            [document_name : {None, Some(""), Some("Lease Agreement")},
             clause_assessments :
                {None, Some(<<>>),
                 Some(<<[risk_level |-> "high", reasoning |-> None]>>)},
             gcs_uri : {None, Some("gs://bucket/inner.pdf")}]},
     risk_summary :
        {None, Some(EmptyRiskSummary),
         Some([high_risk_clauses |-> Some(1), medium_risk_clauses |-> Some(0),
               low_risk_clauses |-> Some(0), total_clauses_assessed |-> Some(1)])},
     page_count : {None} \cup {Some(n) : n \in (0 - 1)..MaxPageField},
     gcs_uri : {None, Some("gs://bucket/top.pdf")}]

EmptyResponse ==
    [risk_assessment |-> None, risk_summary |-> None, page_count |-> None,
     gcs_uri |-> None]

\* a clause_assessments value that is truthy and not an array, the object {}
NonList == <<"object", "{}">>

OneHighSummary ==
    [high_risk_clauses |-> Some(1), medium_risk_clauses |-> Some(0),
     low_risk_clauses |-> Some(0), total_clauses_assessed |-> Some(1)]

\* answers to the upload of lease.pdf: one high clause; clause_assessments of
\* the wrong shape, with and without a count in the summary
LeaseResponses ==
    {[risk_assessment |->
         Some([document_name |-> Some("Lease Agreement"),
               clause_assessments |->
                  Some(<<[risk_level |-> "high",
                          reasoning |-> Some("may be terminated at will")]>>),
               gcs_uri |-> None]),
      risk_summary |-> Some(OneHighSummary),
      page_count |-> Some(2),
      gcs_uri |-> Some("gs://bucket/lease.pdf")],
     [risk_assessment |->
         Some([document_name |-> None, clause_assessments |-> NonList,
               gcs_uri |-> None]),
      risk_summary |-> Some(OneHighSummary),
      page_count |-> None,
      gcs_uri |-> Some("gs://bucket/lease.pdf")],
     [risk_assessment |->
         Some([document_name |-> None, clause_assessments |-> NonList,
               gcs_uri |-> None]),
      risk_summary |-> None,
      page_count |-> None,
      gcs_uri |-> Some("gs://bucket/lease.pdf")]}

\* answers to the upload of will.pdf: the empty object
WillResponses == {EmptyResponse}

PdfFiles ==
    {[name |-> "contract.pdf", type |-> "application/pdf"],
     [name |-> "nda.pdf", type |-> "application/pdf"]}
OtherFiles == {[name |-> "notes.txt", type |-> "text/plain"]}

\* the files of the runs with more than one upload
LeasePdf == [name |-> "lease.pdf", type |-> "application/pdf"]
WillPdf == [name |-> "will.pdf", type |-> "application/pdf"]

\* the files of the runs that open the pages reading the record
MsaPdf == [name |-> "msa.pdf", type |-> "application/pdf"]
AddendumPdf == [name |-> "addendum.pdf", type |-> "application/pdf"]

\* answer to the upload of msa.pdf: a high and a medium clause
MsaResponses ==
    {[risk_assessment |->
         Some([document_name |-> Some("Master Services Agreement"),
               clause_assessments |->
                  Some(<<[risk_level |-> "high", reasoning |-> None,
                          potential_issues |->
                             Some(<<<<"l", "a", "t", "e", " ", "f", "e", "e">>>>)],
                         [risk_level |-> "medium", reasoning |-> None,
                          potential_issues |-> None]>>),
               gcs_uri |-> None]),
      risk_summary |->
         Some([high_risk_clauses |-> Some(1), medium_risk_clauses |-> Some(1),
               low_risk_clauses |-> Some(0), total_clauses_assessed |-> Some(2)]),
      page_count |-> Some(2),
      gcs_uri |-> Some("gs://bucket/msa.pdf")]}

\* answer to the upload of addendum.pdf: one medium clause, and neither a
\* name, a page count nor a storage locator
AddendumResponses ==
    {[risk_assessment |->
         Some([document_name |-> None,
               clause_assessments |->
                  Some(<<[risk_level |-> "medium", reasoning |-> None,
                          potential_issues |-> None]>>),
               gcs_uri |-> None]),
      risk_summary |->
         Some([high_risk_clauses |-> Some(0), medium_risk_clauses |-> Some(1),
               low_risk_clauses |-> Some(0), total_clauses_assessed |-> Some(1)]),
      page_count |-> None,
      gcs_uri |-> None]}

Times == {"3/1/2025, 10:00:00 AM", "3/1/2025, 10:05:00 AM"}

\* ------------------------------------------------------------------------
\* State
\* ------------------------------------------------------------------------
VARIABLES
    \* time-saved estimator, exercised on its own
    pageCount,      \* estimator input: pages
    totalClauses,   \* estimator input: clauses
    timeSaved,      \* upload component's estimate text, None before it ran
    lastHours,      \* timeSavedHours of that estimate, before formatting
    prevHours,      \* timeSavedHours of the estimate for one page fewer
    dashTimeSaved,  \* dashboard's estimate text, None before it ran
    \* DocumentAnalysisProvider
    analysisData,   \* None (null) or Some(record)
    isLoading,
    \* DocumentUpload
    uploadStatus,   \* "idle" | "uploading" | "success" | "error"
    isDragOver,
    fileInput,      \* value of the hidden <input id="file-input">
    dialogOpen,     \* the file picker opened by a click is showing
    requests,       \* files of the upload-document fetches in flight
    lastOk,         \* file and responseData of the latest handleFileUpload that
                    \* got a 200 response, None before there was one
    idleTimers,     \* pending setTimeout(() => setUploadStatus("idle"), 2000)
    navTimers,      \* pending 1500 ms timers of successful uploads
    indexNavTimers, \* pending 2000 ms timers of the Index page's onUpload
    uploadsLeft,    \* files the user will still pick or drop
    lastPick,       \* file of the latest handleDrop or handleFileSelect, None
                    \* before there was one
    lastFetch,      \* how the latest handleFileUpload left its try block:
                    \* "none" | "ok" | "notok" | "threw"
    \* router and PageTransitionProvider
    route,              \* path of the page shown
    isTransitioning,
    transitionMessage,
    navigateTimers,     \* targets of the pending 800 ms timers of
                        \* navigateWithTransition, oldest first
    endTimers,          \* pending 200 ms timers that end a transition
    \* DetailedDocumentAnalysis
    detailedClauses,    \* clauses, the clause list of the current render
    searchQuery,
    filteredClauses,
    \* AudioDecipher
    audioData,          \* None (null) or Some(record)
    isLoadingAudio,
    audioError,         \* None (null) or Some(message)
    audioRequests,      \* file_uri of the explain-document fetches in flight
    lastAudioFetch,     \* how the latest fetchAudioData of the mounted page left
                        \* its try block: "none" | "ok" | "notok" | "threw"
    retriesLeft,        \* clicks on "Retry Audio Fetch" the user will still make
    \* CounterProposal
    selectedClauses,    \* the Set of indexes, in the order they were added
    isGenerating,
    generatedProposal,  \* None ('') or Some(proposal)
    showProposal,
    proposalTimers,     \* pending 3000 ms timers of generateCounterProposal,
                        \* oldest first, each with the selectedClauses and
                        \* clauses of the render its click happened in
    lastBuilt           \* selection and clauses of the latest timer that built
                        \* a proposal text, None before there was one

estimatorVars ==
    <<pageCount, totalClauses, timeSaved, lastHours, prevHours, dashTimeSaved>>
uploadVars ==
    <<analysisData, isLoading, uploadStatus, isDragOver, fileInput, dialogOpen,
      requests, lastOk, idleTimers, navTimers, indexNavTimers, uploadsLeft,
      lastPick, lastFetch>>
navVars == <<route, isTransitioning, transitionMessage, navigateTimers, endTimers>>
searchVars == <<detailedClauses, searchQuery, filteredClauses>>
audioVars ==
    <<audioData, isLoadingAudio, audioError, audioRequests, lastAudioFetch,
      retriesLeft>>
proposalVars ==
    <<selectedClauses, isGenerating, generatedProposal, showProposal,
      proposalTimers, lastBuilt>>
vars == <<estimatorVars, uploadVars, navVars, searchVars, audioVars, proposalVars>>

\* state after the providers and the upload component are constructed
InitUploadVars ==
    /\ analysisData = None
    /\ isLoading = FALSE
    /\ uploadStatus = "idle"
    /\ isDragOver = FALSE
    /\ fileInput = ""
    /\ dialogOpen = FALSE
    /\ requests = <<>>
    /\ lastOk = None
    /\ idleTimers = 0
    /\ navTimers = 0
    /\ indexNavTimers = 0
    /\ lastPick = None
    /\ lastFetch = "none"

\* the Index page is shown and no transition is running
InitNavVars ==
    /\ route = "/"
    /\ isTransitioning = FALSE
    /\ transitionMessage = "Loading..."
    /\ navigateTimers = <<>>
    /\ endTimers = 0

\* DetailedDocumentAnalysis is not mounted
InitSearchVars ==
    /\ detailedClauses = <<>>
    /\ searchQuery = <<>>
    /\ filteredClauses = <<>>

\* AudioDecipher is not mounted
InitAudioVars ==
    /\ audioData = None
    /\ isLoadingAudio = FALSE
    /\ audioError = None
    /\ audioRequests = <<>>
    /\ lastAudioFetch = "none"

\* CounterProposal is not mounted
InitProposalVars ==
    /\ selectedClauses = <<>>
    /\ isGenerating = FALSE
    /\ generatedProposal = None
    /\ showProposal = FALSE
    /\ proposalTimers = <<>>
    /\ lastBuilt = None

InitEstimatorVars ==
    /\ timeSaved = None
    /\ lastHours = None
    /\ prevHours = None
    /\ dashTimeSaved = None

\* ------------------------------------------------------------------------
\* Time-saved estimator on its own
\* ------------------------------------------------------------------------
InitTimeSaved ==
    /\ pageCount \in 0..MaxPageCount
    /\ totalClauses \in 0..MaxTotalClauses
    /\ InitEstimatorVars
    /\ InitUploadVars
    /\ InitNavVars
    /\ InitSearchVars
    /\ InitAudioVars
    /\ InitProposalVars
    /\ uploadsLeft = 0
    /\ retriesLeft = 0

\* the upload component estimates for the current document
Estimate ==
    /\ timeSaved = None
    /\ timeSaved' = Some(calculateTimeSaved(pageCount, totalClauses))
    /\ lastHours' = Some(timeSavedHours(pageCount, totalClauses))
    /\ UNCHANGED <<pageCount, totalClauses, prevHours, dashTimeSaved, uploadVars,
                   navVars, searchVars, proposalVars, audioVars>>

\* the same document with one more page is estimated again; the dashboard has
\* not rendered it yet
EstimateLonger ==
    /\ timeSaved # None
    /\ pageCount < MaxPageCount
    /\ pageCount' = pageCount + 1
    /\ prevHours' = lastHours
    /\ timeSaved' = Some(calculateTimeSaved(pageCount + 1, totalClauses))
    /\ lastHours' = Some(timeSavedHours(pageCount + 1, totalClauses))
    /\ dashTimeSaved' = None
    /\ UNCHANGED <<totalClauses, uploadVars, navVars, searchVars, proposalVars, audioVars>>

\* the dashboard estimates for the current document
DashboardEstimate ==
    /\ dashTimeSaved = None
    /\ dashTimeSaved' = Some(dashboardCalculateTimeSaved(pageCount, totalClauses))
    /\ UNCHANGED <<pageCount, totalClauses, timeSaved, lastHours, prevHours, uploadVars,
                   navVars, searchVars, proposalVars, audioVars>>

NextTimeSaved == Estimate \/ EstimateLonger \/ DashboardEstimate

SpecTimeSaved == InitTimeSaved /\ [][NextTimeSaved]_vars

\* ------------------------------------------------------------------------
\* DetailedDocumentAnalysis: the clause list and its search
\* ------------------------------------------------------------------------
\* a text the search looks inside is the sequence of its characters
UpperCase ==
    <<"A", "B", "C", "D", "E", "F", "G", "H", "I", "J", "K", "L", "M",
      "N", "O", "P", "Q", "R", "S", "T", "U", "V", "W", "X", "Y", "Z">>
LowerCase ==
    <<"a", "b", "c", "d", "e", "f", "g", "h", "i", "j", "k", "l", "m",
      "n", "o", "p", "q", "r", "s", "t", "u", "v", "w", "x", "y", "z">>

\* String.prototype.toLowerCase
LowerOf ==
    [c \in {UpperCase[k] : k \in DOMAIN UpperCase} |->
        LowerCase[CHOOSE k \in DOMAIN UpperCase : UpperCase[k] = c]]
toLowerCase(text) ==
    [i \in 1..Len(text) |->
        IF text[i] \in DOMAIN LowerOf THEN LowerOf[text[i]] ELSE text[i]]

\* String.prototype.toUpperCase
UpperOf ==
    [c \in {LowerCase[k] : k \in DOMAIN LowerCase} |->
        UpperCase[CHOOSE k \in DOMAIN LowerCase : LowerCase[k] = c]]
toUpperCase(text) ==
    [i \in 1..Len(text) |->
        IF text[i] \in DOMAIN UpperOf THEN UpperOf[text[i]] ELSE text[i]]

\* String.prototype.trim, the space being the only white space typed
RECURSIVE trim(_)
trim(text) ==
    IF text = <<>> THEN text
    ELSE IF Head(text) = " " THEN trim(Tail(text))
    ELSE IF text[Len(text)] = " " THEN trim(SubSeq(text, 1, Len(text) - 1))
    ELSE text

\* String.prototype.split(' '): the pieces between single spaces, the empty
\* ones included
RECURSIVE split(_)
split(text) ==
    IF \A i \in DOMAIN text : text[i] # " " THEN <<text>>
    ELSE LET at == CHOOSE i \in DOMAIN text :
                        text[i] = " " /\ \A j \in 1..(i - 1) : text[j] # " "
         IN  <<SubSeq(text, 1, at - 1)>> \o split(SubSeq(text, at + 1, Len(text)))

\* String.prototype.includes
includes(text, term) ==
    \E i \in 0..(Len(text) - Len(term)) : SubSeq(text, i + 1, i + Len(term)) = term

\* Array.prototype.join(', ')
RECURSIVE join(_)
join(texts) ==
    IF texts = <<>> THEN <<>>
    ELSE IF Len(texts) = 1 THEN texts[1]
    ELSE texts[1] \o <<",", " ">> \o join(Tail(texts))

ClausePrefix ==
    <<"C", "l", "a", "u", "s", "e", " ">>
NoSummaryAvailable ==
    <<"N", "o", " ", "s", "u", "m", "m", "a", "r", "y", " ", "a", "v", "a",
      "i", "l", "a", "b", "l", "e">>
NoImpactDetailsAvailable ==
    <<"N", "o", " ", "i", "m", "p", "a", "c", "t", " ", "d", "e", "t", "a",
      "i", "l", "s", " ", "a", "v", "a", "i", "l", "a", "b", "l", "e">>

\* the fallback list shown when no document was analysed
SampleClauses ==
    <<[title |->
          <<"N", "o", " ", "D", "o", "c", "u", "m", "e", "n", "t", " ", "A",
            "n", "a", "l", "y", "z", "e", "d">>,
       risk |-> "medium",
       summary |->
          <<"P", "l", "e", "a", "s", "e", " ", "u", "p", "l", "o", "a", "d",
            " ", "a", " ", "d", "o", "c", "u", "m", "e", "n", "t", " ", "t",
            "o", " ", "s", "e", "e", " ", "d", "e", "t", "a", "i", "l", "e",
            "d", " ", "a", "n", "a", "l", "y", "s", "i", "s">>,
       impact |->
          <<"U", "p", "l", "o", "a", "d", " ", "a", " ", "d", "o", "c", "u",
            "m", "e", "n", "t", " ", "t", "o", " ", "g", "e", "t", " ", "s",
            "t", "a", "r", "t", "e", "d">>]>>

\* convertBackendDataToClauses of DetailedDocumentAnalysis, with the fields
\* the list and the search read
detailedConvertBackendDataToClauses(data) ==
    LET clauseAssessments == OrArray(data.risk_assessment.clause_assessments)
    IN  [index \in 1..Len(clauseAssessments) |->
            LET clause == clauseAssessments[index]
            IN  [title |-> ClausePrefix \o <<ToString(index)>>,
                 risk |-> IF clause.risk_level = "" THEN "medium"
                          ELSE clause.risk_level,
                 summary |-> IF clause.reasoning = None \/ clause.reasoning = Some(<<>>)
                                THEN NoSummaryAvailable
                                ELSE clause.reasoning[1],
                 impact |-> IF clause.potential_issues = None
                               THEN NoImpactDetailsAvailable
                            ELSE IF join(clause.potential_issues[1]) = <<>>
                               THEN NoImpactDetailsAvailable
                            ELSE join(clause.potential_issues[1])]]

\* const clauses = analysisData ? convertBackendDataToClauses() : [sample]
ClausesOf(data) ==
    IF data = None THEN SampleClauses
    ELSE detailedConvertBackendDataToClauses(data[1])

\* riskOrder = { high: 0, medium: 1, low: 2 }; other levels have no entry
riskOrder(risk) ==
    CASE risk = "high" -> 0 [] risk = "medium" -> 1 [] risk = "low" -> 2

HasRiskOrder(risk) == risk \in {"high", "medium", "low"}

Reorderings(list) ==
    {[i \in DOMAIN list |-> list[p[i]]] :
        p \in {q \in [DOMAIN list -> DOMAIN list] :
                  \A i, j \in DOMAIN list : q[i] = q[j] => i = j}}

\* clauseList.sort((a, b) => riskOrder[a.risk] - riskOrder[b.risk]): the
\* stable sort when every risk has an order; with a risk that has none the
\* comparison yields NaN, the comparator is not consistent and the order is
\* implementation-defined
sortClausesByRisk(clauseList) ==
    IF \A i \in DOMAIN clauseList : HasRiskOrder(clauseList[i].risk)
        THEN {SelectSeq(clauseList, LAMBDA clause : riskOrder(clause.risk) = 0)
                \o SelectSeq(clauseList, LAMBDA clause : riskOrder(clause.risk) = 1)
                \o SelectSeq(clauseList, LAMBDA clause : riskOrder(clause.risk) = 2)}
        ELSE Reorderings(clauseList)

\* `${clause.title} ${clause.summary} ${clause.impact}`.toLowerCase()
searchableText(clause) ==
    toLowerCase(clause.title \o <<" ">> \o clause.summary \o <<" ">> \o clause.impact)

\* the lists performSemanticSearch may hand to setFilteredClauses
performSemanticSearch(clauseList, query) ==
    IF trim(query) = <<>>
        THEN sortClausesByRisk(clauseList)
        ELSE LET searchTerms == split(toLowerCase(query))
                 results ==
                    SelectSeq(clauseList,
                              LAMBDA clause :
                                 \E k \in DOMAIN searchTerms :
                                    includes(searchableText(clause), searchTerms[k]))
             IN  sortClausesByRisk(results)

\* ------------------------------------------------------------------------
\* AudioDecipher: mounting and the effect on analysisData
\* ------------------------------------------------------------------------
AudioPath == "/audio-decipher"

\* analysisData?.risk_assessment?.gcs_uri, "" when there is none
GcsUriOf(data) == IF data = None THEN "" ELSE data[1].risk_assessment.gcs_uri

\* fetchAudioData(gcsUri) up to the await of fetch, added to the fetches in
\* flight
BeginAudioFetch(inFlight, gcsUri) ==
    /\ isLoadingAudio' = TRUE
    /\ audioError' = None
    /\ audioRequests' = Append(inFlight, gcsUri)

\* the audio page after a step that leaves the path `to` shown and the record
\* `data` stored: unmounted off its path, its state dropped; mounted when the
\* path is entered, its state fresh and the effect run; the effect run again
\* when the record was replaced
RenderAudio(to, data, replaced) ==
    IF to # AudioPath
        THEN /\ audioData' = None
             /\ isLoadingAudio' = FALSE
             /\ audioError' = None
             /\ audioRequests' = <<>>
             /\ lastAudioFetch' = "none"
    ELSE IF route # AudioPath
        THEN /\ audioData' = None
             /\ lastAudioFetch' = "none"
             /\ IF GcsUriOf(data) # ""
                   THEN BeginAudioFetch(<<>>, GcsUriOf(data))
                   ELSE /\ isLoadingAudio' = FALSE
                        /\ audioError' = None
                        /\ audioRequests' = <<>>
    ELSE IF replaced /\ GcsUriOf(data) # ""
        THEN /\ BeginAudioFetch(audioRequests, GcsUriOf(data))
             /\ UNCHANGED <<audioData, lastAudioFetch>>
    ELSE UNCHANGED <<audioData, isLoadingAudio, audioError, audioRequests,
                     lastAudioFetch>>

\* ------------------------------------------------------------------------
\* DetailedDocumentAnalysis: mounting and rendering
\* ------------------------------------------------------------------------
DetailedPath == "/detailed-analysis"

\* the detailed page after a step that leaves the path `to` shown and the
\* record `data` stored: unmounted off its path, its state dropped; mounted
\* when the path is entered, its state fresh; rendered again with the clauses
\* of the new record when the record was replaced. The effect that follows a
\* render is ClausesEffect
RenderDetailed(to, data, replaced) ==
    IF to # DetailedPath
        THEN /\ detailedClauses' = <<>>
             /\ searchQuery' = <<>>
             /\ filteredClauses' = <<>>
    ELSE IF route # DetailedPath
        THEN /\ detailedClauses' = ClausesOf(data)
             /\ searchQuery' = <<>>
             /\ filteredClauses' = <<>>
    ELSE IF replaced
        THEN /\ detailedClauses' = ClausesOf(data)
             /\ UNCHANGED <<searchQuery, filteredClauses>>
    ELSE UNCHANGED <<detailedClauses, searchQuery, filteredClauses>>

\* ------------------------------------------------------------------------
\* CounterProposal: the clause list, mounting and rendering
\* ------------------------------------------------------------------------
ProposalPath == "/counter-proposal"

\* convertBackendDataToClauses of CounterProposal, with the fields the
\* proposal text reads
proposalConvertBackendDataToClauses(data) ==
    IF data = None THEN <<>>
    ELSE LET clauseAssessments == OrArray(data[1].risk_assessment.clause_assessments)
         IN  [index \in 1..Len(clauseAssessments) |->
                 [title |-> ClausePrefix \o <<ToString(index)>>,
                  risk |-> clauseAssessments[index].risk_level]]

\* const clauses = allClauses.filter(high or medium)
ProposalClausesOf(data) ==
    SelectSeq(proposalConvertBackendDataToClauses(data),
              LAMBDA clause : clause.risk = "high" \/ clause.risk = "medium")

\* the setState calls of a timer reach the component the timer was set by
\* only while that component is mounted
UnmountTimers(timers) ==
    [k \in DOMAIN timers |-> [timers[k] EXCEPT !.mounted = FALSE]]

\* the counter-proposal page after a step that leaves the path `to` shown:
\* unmounted off its path, its state dropped, which is also the state it is
\* mounted with
RenderProposal(to) ==
    IF to # ProposalPath
        THEN /\ selectedClauses' = <<>>
             /\ isGenerating' = FALSE
             /\ generatedProposal' = None
             /\ showProposal' = FALSE
             /\ proposalTimers' = UnmountTimers(proposalTimers)
             /\ UNCHANGED lastBuilt
        ELSE UNCHANGED proposalVars

\* the pages that read the record, after a step that changes the path or
\* the record
RenderPages(to, data, replaced) ==
    /\ RenderAudio(to, data, replaced)
    /\ RenderDetailed(to, data, replaced)
    /\ RenderProposal(to)

\* ------------------------------------------------------------------------
\* Page transitions
\* ------------------------------------------------------------------------
\* navigateWithTransition(to, message): startTransition(message) and the
\* 800 ms timer; the primed values of navVars but route
NavigateWithTransition(to, message) ==
    /\ transitionMessage' = message
    /\ isTransitioning' = TRUE
    /\ navigateTimers' = Append(navigateTimers, to)
    /\ UNCHANGED endTimers

\* the 800 ms timer of navigateWithTransition: navigate(to), scroll, and the
\* 200 ms timer; timers of equal delay run in the order they were set
NavigateTimerFires ==
    /\ navigateTimers # <<>>
    /\ route' = Head(navigateTimers)
    /\ navigateTimers' = Tail(navigateTimers)
    /\ endTimers' = endTimers + 1
    /\ UNCHANGED <<isTransitioning, transitionMessage>>

\* the 200 ms timer: endTransition()
EndTimerFires ==
    /\ endTimers > 0
    /\ endTimers' = endTimers - 1
    /\ isTransitioning' = FALSE
    /\ transitionMessage' = "Loading..."
    /\ UNCHANGED <<route, navigateTimers>>

\* ------------------------------------------------------------------------
\* DocumentUpload: picking a file, the upload and its completion
\* ------------------------------------------------------------------------
\* the Index page, and with it the upload component, is mounted; the state
\* setters of an unmounted component do nothing and its input element is gone
UploadMounted == route = "/"

\* handleFileUpload up to the await of fetch
BeginUpload(file) ==
    /\ uploadStatus' = "uploading"
    /\ isLoading' = TRUE
    /\ requests' = Append(requests, file)
    /\ UNCHANGED idleTimers

\* the else branch of handleDrop and handleFileSelect
\* (variant: the rejection also raises the loading flag)
RejectFileLoading ==
    /\ uploadStatus' = "error"
    /\ idleTimers' = idleTimers + 1
    /\ isLoading' = TRUE
    /\ UNCHANGED requests
RejectFile ==
    /\ uploadStatus' = "error"
    /\ idleTimers' = idleTimers + 1
    /\ UNCHANGED <<isLoading, requests>>

\* the overlay of a running transition covers the page and takes the
\* pointer's events
PointerReachesPage == ~ isTransitioning

\* onClick of the drop zone: opens the picker only when idle
ClickUpload ==
    /\ UploadMounted
    /\ PointerReachesPage
    /\ uploadStatus = "idle"
    /\ ~ dialogOpen
    /\ uploadsLeft > 0
    /\ dialogOpen' = TRUE
    /\ UNCHANGED <<estimatorVars, analysisData, isLoading, uploadStatus, isDragOver,
                   fileInput, requests, lastOk, idleTimers, navTimers,
                   indexNavTimers, uploadsLeft, lastPick, lastFetch,
                   navVars, searchVars, proposalVars, audioVars>>

handleDragOver ==
    /\ UploadMounted
    /\ isDragOver' = TRUE
    /\ UNCHANGED <<estimatorVars, analysisData, isLoading, uploadStatus, fileInput,
                   dialogOpen, requests, lastOk, idleTimers, navTimers,
                   indexNavTimers, uploadsLeft, lastPick, lastFetch,
                   navVars, searchVars, proposalVars, audioVars>>

handleDragLeave ==
    /\ UploadMounted
    /\ isDragOver' = FALSE
    /\ UNCHANGED <<estimatorVars, analysisData, isLoading, uploadStatus, fileInput,
                   dialogOpen, requests, lastOk, idleTimers, navTimers,
                   indexNavTimers, uploadsLeft, lastPick, lastFetch,
                   navVars, searchVars, proposalVars, audioVars>>

handleDrop(files) ==
    /\ UploadMounted
    /\ PointerReachesPage
    /\ uploadsLeft > 0
    /\ \E file \in files :
        /\ isDragOver' = FALSE
        /\ uploadsLeft' = uploadsLeft - 1
        /\ lastPick' = Some(file)
        /\ IF file.type = "application/pdf"
              THEN BeginUpload(file)
              ELSE RejectFile
        /\ UNCHANGED <<estimatorVars, analysisData, fileInput, dialogOpen,
                       lastOk, navTimers, indexNavTimers, lastFetch,
                       navVars, searchVars, proposalVars, audioVars>>

handleFileSelect(files) ==
    /\ UploadMounted
    /\ dialogOpen
    /\ uploadsLeft > 0
    /\ \E file \in files :
        /\ dialogOpen' = FALSE
        /\ uploadsLeft' = uploadsLeft - 1
        /\ lastPick' = Some(file)
        /\ IF file.type = "application/pdf"
              THEN BeginUpload(file) /\ fileInput' = file.name
              ELSE RejectFile /\ fileInput' = ""
        /\ UNCHANGED <<estimatorVars, analysisData, isDragOver, lastOk,
                       navTimers, indexNavTimers, lastFetch,
                       navVars, searchVars, proposalVars, audioVars>>

RemoveAt(seq, i) == SubSeq(seq, 1, i - 1) \o SubSeq(seq, i + 1, Len(seq))

\* the bodies the backend may answer an upload of the file with
ResponsesTo(file) ==
    CASE file.name = "contract.pdf" -> ClauseResponses \cup HeaderResponses
      [] file.name = "lease.pdf" -> LeaseResponses
      [] file.name = "will.pdf" -> WillResponses
      [] file.name = "msa.pdf" -> MsaResponses
      [] file.name = "addendum.pdf" -> AddendumResponses
      [] OTHER -> HeaderResponses

\* setUploadStatus(status) and the reset of the file input, which reach the
\* component only while it is mounted
ShowOutcome(status) ==
    IF UploadMounted
        THEN uploadStatus' = status /\ fileInput' = ""
        ELSE UNCHANGED <<uploadStatus, fileInput>>

\* handleFileUpload after the await: response.ok, and processResponseData
\* returns
\* (variant: a record already stored is kept)
FetchOkFirstWins ==
    \E i \in DOMAIN requests :
        \E body \in ResponsesTo(requests[i]), now \in Times :
            /\ ~ processResponseDataThrows(body)
            /\ lastOk' = Some([file |-> requests[i], responseData |-> body])
            /\ lastFetch' = "ok"
            /\ analysisData' =
                  IF analysisData = None
                     THEN Some(processResponseData(body, requests[i], now))
                     ELSE analysisData
            /\ ShowOutcome("success")
            /\ indexNavTimers' = indexNavTimers + 1
            /\ navTimers' = navTimers + 1
            /\ isLoading' = FALSE
            /\ requests' = RemoveAt(requests, i)
            /\ RenderPages(route, analysisData', TRUE)
            /\ UNCHANGED <<estimatorVars, isDragOver, dialogOpen, idleTimers,
                           uploadsLeft, lastPick, navVars, retriesLeft>>
\* (variant: the new record is merged into the stored one, whose name is
\* kept when the response has none)
FetchOkMerges ==
    \E i \in DOMAIN requests :
        \E body \in ResponsesTo(requests[i]), now \in Times :
            /\ ~ processResponseDataThrows(body)
            /\ lastOk' = Some([file |-> requests[i], responseData |-> body])
            /\ lastFetch' = "ok"
            /\ analysisData' =
                  LET record == processResponseData(body, requests[i], now)
                  IN  IF analysisData # None /\ record.risk_assessment.document_name = None
                         THEN Some([record EXCEPT
                                       !.document_name = analysisData[1].document_name])
                         ELSE Some(record)
            /\ ShowOutcome("success")
            /\ indexNavTimers' = indexNavTimers + 1
            /\ navTimers' = navTimers + 1
            /\ isLoading' = FALSE
            /\ requests' = RemoveAt(requests, i)
            /\ RenderPages(route, analysisData', TRUE)
            /\ UNCHANGED <<estimatorVars, isDragOver, dialogOpen, idleTimers,
                           uploadsLeft, lastPick, navVars, retriesLeft>>
FetchOk ==
    \E i \in DOMAIN requests :
        \E body \in ResponsesTo(requests[i]), now \in Times :
            /\ ~ processResponseDataThrows(body)
            /\ lastOk' = Some([file |-> requests[i], responseData |-> body])
            /\ lastFetch' = "ok"
            /\ analysisData' = Some(processResponseData(body, requests[i], now))
            /\ ShowOutcome("success")
            /\ indexNavTimers' = indexNavTimers + 1
            /\ navTimers' = navTimers + 1
            /\ isLoading' = FALSE
            /\ requests' = RemoveAt(requests, i)
            /\ RenderPages(route, analysisData', TRUE)
            /\ UNCHANGED <<estimatorVars, isDragOver, dialogOpen, idleTimers,
                           uploadsLeft, lastPick, navVars, retriesLeft>>

\* handleFileUpload after the await: response.ok, and processResponseData
\* throws, which the catch block takes
ProcessingThrows ==
    \E i \in DOMAIN requests :
        \E body \in ResponsesTo(requests[i]) :
            /\ processResponseDataThrows(body)
            /\ lastOk' = Some([file |-> requests[i], responseData |-> body])
            /\ lastFetch' = "threw"
            /\ ShowOutcome("error")
            /\ isLoading' = FALSE
            /\ requests' = RemoveAt(requests, i)
            /\ UNCHANGED <<estimatorVars, analysisData, isDragOver, dialogOpen,
                           idleTimers, navTimers, indexNavTimers, uploadsLeft,
                           lastPick, navVars, searchVars, proposalVars, audioVars>>

\* handleFileUpload after the await: a non-2xx status
\* (variant: the failure clears the stored record)
FetchNotOkClears ==
    \E i \in DOMAIN requests :
        /\ lastFetch' = "notok"
        /\ ShowOutcome("error")
        /\ isLoading' = FALSE
        /\ requests' = RemoveAt(requests, i)
        /\ analysisData' = None
        /\ UNCHANGED <<estimatorVars, isDragOver, dialogOpen,
                       lastOk, idleTimers, navTimers, indexNavTimers,
                       uploadsLeft, lastPick, navVars, searchVars, proposalVars, audioVars>>
FetchNotOk ==
    \E i \in DOMAIN requests :
        /\ lastFetch' = "notok"
        /\ ShowOutcome("error")
        /\ isLoading' = FALSE
        /\ requests' = RemoveAt(requests, i)
        /\ UNCHANGED <<estimatorVars, analysisData, isDragOver, dialogOpen,
                       lastOk, idleTimers, navTimers, indexNavTimers,
                       uploadsLeft, lastPick, navVars, searchVars, proposalVars, audioVars>>

\* handleFileUpload after the await: fetch (or response.json) rejected
FetchThrows ==
    \E i \in DOMAIN requests :
        /\ lastFetch' = "threw"
        /\ ShowOutcome("error")
        /\ isLoading' = FALSE
        /\ requests' = RemoveAt(requests, i)
        /\ UNCHANGED <<estimatorVars, analysisData, isDragOver, dialogOpen,
                       lastOk, idleTimers, navTimers, indexNavTimers,
                       uploadsLeft, lastPick, navVars, searchVars, proposalVars, audioVars>>

\* setTimeout(() => setUploadStatus("idle"), 2000) of a rejected file
IdleTimerFires ==
    /\ idleTimers > 0
    /\ idleTimers' = idleTimers - 1
    /\ IF UploadMounted THEN uploadStatus' = "idle" ELSE UNCHANGED uploadStatus
    /\ UNCHANGED <<estimatorVars, analysisData, isLoading, isDragOver, fileInput,
                   dialogOpen, requests, lastOk, navTimers, indexNavTimers,
                   uploadsLeft, lastPick, lastFetch, navVars, searchVars, proposalVars, audioVars>>

\* the 1500 ms timer of a successful upload
SuccessTimerFires ==
    /\ navTimers > 0
    /\ navTimers' = navTimers - 1
    /\ IF UploadMounted THEN uploadStatus' = "idle" ELSE UNCHANGED uploadStatus
    /\ NavigateWithTransition("/dashboard", "Processing Document...")
    /\ UNCHANGED <<estimatorVars, analysisData, isLoading, isDragOver, fileInput,
                   dialogOpen, requests, lastOk, idleTimers, indexNavTimers,
                   uploadsLeft, lastPick, lastFetch, route, searchVars, proposalVars, audioVars>>

\* the 2000 ms timer of the Index page's handleDocumentUpload; it was set
\* together with the 1500 ms timer of the same upload and runs after it
IndexTimerFires ==
    /\ indexNavTimers > navTimers
    /\ indexNavTimers' = indexNavTimers - 1
    /\ route' = "/dashboard"
    /\ RenderPages("/dashboard", analysisData, FALSE)
    /\ UNCHANGED <<estimatorVars, analysisData, isLoading, uploadStatus, isDragOver,
                   fileInput, dialogOpen, requests, lastOk, idleTimers, navTimers,
                   uploadsLeft, lastPick, lastFetch, isTransitioning,
                   transitionMessage, navigateTimers, endTimers, retriesLeft>>

\* the timers of navigateWithTransition, seen from the whole application
TransitionNavigates ==
    /\ NavigateTimerFires
    /\ RenderPages(Head(navigateTimers), analysisData, FALSE)
    /\ UNCHANGED <<estimatorVars, uploadVars, retriesLeft>>

TransitionEnds ==
    /\ EndTimerFires
    /\ UNCHANGED <<estimatorVars, uploadVars, searchVars, proposalVars, audioVars>>

\* ------------------------------------------------------------------------
\* One upload whose 200 response ranges over the response bodies
\* ------------------------------------------------------------------------
InitNormalize ==
    /\ pageCount = 0
    /\ totalClauses = 0
    /\ InitEstimatorVars
    /\ InitUploadVars
    /\ InitNavVars
    /\ InitSearchVars
    /\ InitAudioVars
    /\ InitProposalVars
    /\ uploadsLeft = 1
    /\ retriesLeft = 0

NextNormalize ==
    \/ ClickUpload
    \/ handleFileSelect(PdfFiles \cup OtherFiles)
    \/ handleDrop(PdfFiles \cup OtherFiles)
    \/ FetchOk
    \/ FetchNotOk
    \/ FetchThrows

SpecNormalize == InitNormalize /\ [][NextNormalize]_vars

\* ------------------------------------------------------------------------
\* Uploads that may overlap, with their timers and the page transition
\* ------------------------------------------------------------------------
UploadFiles == {LeasePdf, WillPdf} \cup OtherFiles

InitUpload ==
    /\ pageCount = 0
    /\ totalClauses = 0
    /\ InitEstimatorVars
    /\ InitUploadVars
    /\ InitNavVars
    /\ InitSearchVars
    /\ InitAudioVars
    /\ InitProposalVars
    /\ uploadsLeft = MaxUploads
    /\ retriesLeft = 0

NextUpload ==
    \/ ClickUpload
    \/ handleFileSelect(UploadFiles)
    \/ handleDrop(UploadFiles)
    \/ FetchOk
    \/ ProcessingThrows
    \/ FetchNotOk
    \/ FetchThrows
    \/ IdleTimerFires
    \/ SuccessTimerFires
    \/ IndexTimerFires
    \/ TransitionNavigates
    \/ TransitionEnds

SpecUpload == InitUpload /\ [][NextUpload]_vars

\* ------------------------------------------------------------------------
\* AudioDecipher: the explain-document fetch
\* ------------------------------------------------------------------------
\* the card of the dashboard that opens the audio page
GoToAudio ==
    /\ route = "/dashboard"
    /\ PointerReachesPage
    /\ NavigateWithTransition(AudioPath, "Loading...")
    /\ UNCHANGED <<estimatorVars, uploadVars, route, searchVars, proposalVars, audioVars>>

\* the logo and the back button of the audio page
AudioBack ==
    /\ route = AudioPath
    /\ PointerReachesPage
    /\ NavigateWithTransition("/dashboard", "Loading...")
    /\ UNCHANGED <<estimatorVars, uploadVars, route, searchVars, proposalVars, audioVars>>

\* the audio the backend explains the document at gcsUri with
AudioUrlOf(gcsUri) == "audio of " \o gcsUri

\* fetchAudioData after the await: response.ok
AudioFetchOk ==
    \E i \in DOMAIN audioRequests :
        /\ audioData' = Some([audio_url |-> AudioUrlOf(audioRequests[i]),
                              title |-> "Document Audio Overview"])
        /\ isLoadingAudio' = FALSE
        /\ audioRequests' = RemoveAt(audioRequests, i)
        /\ lastAudioFetch' = "ok"
        /\ UNCHANGED <<estimatorVars, uploadVars, navVars, searchVars, proposalVars, audioError,
                       retriesLeft>>

\* fetchAudioData after the await: a non-2xx status with an empty body
AudioFetchNotOk ==
    \E i \in DOMAIN audioRequests :
        /\ audioError' = Some("Backend error (500): Unknown error")
        /\ isLoadingAudio' = FALSE
        /\ audioRequests' = RemoveAt(audioRequests, i)
        /\ lastAudioFetch' = "notok"
        /\ UNCHANGED <<estimatorVars, uploadVars, navVars, searchVars, proposalVars, audioData,
                       retriesLeft>>

\* fetchAudioData after the await: fetch rejected
AudioFetchThrows ==
    \E i \in DOMAIN audioRequests :
        /\ audioError' = Some("Network error: Failed to fetch")
        /\ isLoadingAudio' = FALSE
        /\ audioRequests' = RemoveAt(audioRequests, i)
        /\ lastAudioFetch' = "threw"
        /\ UNCHANGED <<estimatorVars, uploadVars, navVars, searchVars, proposalVars, audioData,
                       retriesLeft>>

\* the button "Retry Audio Fetch", rendered inside the error message when
\* the record has a gcs_uri
RetryShown == audioError # None /\ GcsUriOf(analysisData) # ""

RetryAudioFetch ==
    /\ route = AudioPath
    /\ PointerReachesPage
    /\ RetryShown
    /\ retriesLeft > 0
    /\ retriesLeft' = retriesLeft - 1
    /\ BeginAudioFetch(audioRequests, GcsUriOf(analysisData))
    /\ UNCHANGED <<estimatorVars, uploadVars, navVars, searchVars, proposalVars, audioData,
                   lastAudioFetch>>

\* the user drops PDFs on the Index page and opens the audio page from the
\* dashboard
AudioRunFiles == {LeasePdf, WillPdf}

InitAudio ==
    /\ pageCount = 0
    /\ totalClauses = 0
    /\ InitEstimatorVars
    /\ InitUploadVars
    /\ InitNavVars
    /\ InitSearchVars
    /\ InitAudioVars
    /\ InitProposalVars
    /\ uploadsLeft = MaxUploads
    /\ retriesLeft = MaxRetries

NextAudio ==
    \/ handleDrop(AudioRunFiles)
    \/ FetchOk
    \/ ProcessingThrows
    \/ FetchNotOk
    \/ FetchThrows
    \/ SuccessTimerFires
    \/ IndexTimerFires
    \/ TransitionNavigates
    \/ TransitionEnds
    \/ GoToAudio
    \/ AudioBack
    \/ AudioFetchOk
    \/ AudioFetchNotOk
    \/ AudioFetchThrows
    \/ RetryAudioFetch

SpecAudio == InitAudio /\ [][NextAudio]_vars

\* ------------------------------------------------------------------------
\* DetailedDocumentAnalysis: the effect and the search box
\* ------------------------------------------------------------------------
\* the useEffect on [analysisData, clauses]; clauses is a new array in every
\* render, so the effect runs after each of them
ClausesEffect ==
    /\ route = "/detailed-analysis"
    /\ filteredClauses' \in sortClausesByRisk(detailedClauses)
    /\ UNCHANGED <<estimatorVars, uploadVars, navVars, detailedClauses, searchQuery,
                   audioVars,
                   proposalVars>>

\* handleSearchChange: the handler sees the array of the latest render, which
\* that render's effect has sorted in place
handleSearchChange(queries) ==
    /\ route = "/detailed-analysis"
    /\ \E query \in queries, sorted \in sortClausesByRisk(detailedClauses) :
        /\ query # searchQuery
        /\ searchQuery' = query
        /\ filteredClauses' \in performSemanticSearch(sorted, query)
    /\ UNCHANGED <<estimatorVars, uploadVars, navVars, detailedClauses, audioVars,
                   proposalVars>>

\* what the user types in the search box
QueryChars == {"f", "F", "q", " "}
Queries == SeqsUpTo(QueryChars, MaxQueryLen)

\* the clause assessments of the records the view is opened with
SearchAssessments ==
    [risk_level : {"high", "medium", "low", "", "critical"},
     reasoning : {None},
     potential_issues : {None, Some(<<<<"l", "a", "t", "e", " ", "f", "e", "e">>>>)}]
SearchRecords ==
    {None} \cup
    {Some([risk_assessment |-> [clause_assessments |-> ca]]) :
        ca \in {None} \cup
               {Some(cs) : cs \in SeqsUpTo(SearchAssessments, MaxSearchClauses)}}

InitSearch ==
    /\ pageCount = 0
    /\ totalClauses = 0
    /\ InitEstimatorVars
    /\ isLoading = FALSE
    /\ uploadStatus = "idle"
    /\ isDragOver = FALSE
    /\ fileInput = ""
    /\ dialogOpen = FALSE
    /\ requests = <<>>
    /\ lastOk = None
    /\ idleTimers = 0
    /\ navTimers = 0
    /\ indexNavTimers = 0
    /\ lastPick = None
    /\ lastFetch = "none"
    /\ uploadsLeft = 0
    /\ route = "/detailed-analysis"
    /\ isTransitioning = FALSE
    /\ transitionMessage = "Loading..."
    /\ navigateTimers = <<>>
    /\ endTimers = 0
    /\ InitAudioVars
    /\ InitProposalVars
    /\ retriesLeft = 0
    /\ analysisData \in SearchRecords
    /\ detailedClauses = ClausesOf(analysisData)
    /\ searchQuery = <<>>
    /\ filteredClauses = <<>>

NextSearch == ClausesEffect \/ handleSearchChange(Queries)

SpecSearch == InitSearch /\ [][NextSearch]_vars

\* ------------------------------------------------------------------------
\* CounterProposal: selecting clauses and generating the proposal
\* ------------------------------------------------------------------------
\* the clause list and the generate button are rendered
ProposalListShown ==
    /\ route = ProposalPath
    /\ ~ isLoading
    /\ analysisData # None
    /\ Len(ProposalClausesOf(analysisData)) > 0
    /\ ~ showProposal

\* new Set(selectedClauses) with the index deleted when it has it, added
\* otherwise
ToggleIndex(selection, index) ==
    IF \E k \in DOMAIN selection : selection[k] = index
        THEN SelectSeq(selection, LAMBDA i : i # index)
        ELSE Append(selection, index)

\* a click on the card of a clause of the rendered list
toggleClauseSelection ==
    /\ ProposalListShown
    /\ PointerReachesPage
    /\ \E index \in 0..(Len(ProposalClausesOf(analysisData)) - 1) :
          selectedClauses' = ToggleIndex(selectedClauses, index)
    /\ UNCHANGED <<estimatorVars, uploadVars, navVars, searchVars, audioVars,
                   isGenerating, generatedProposal, showProposal, proposalTimers,
                   lastBuilt>>

\* a click on the generate button, disabled while nothing is selected and
\* while a proposal is being generated; the handler returns early on an
\* empty selection and otherwise sets the 3000 ms timer
generateCounterProposal ==
    /\ ProposalListShown
    /\ PointerReachesPage
    /\ ~ (Len(selectedClauses) = 0 \/ isGenerating)
    /\ Len(proposalTimers) < MaxProposalTimers
    /\ IF Len(selectedClauses) = 0
          THEN UNCHANGED <<isGenerating, proposalTimers>>
          ELSE /\ isGenerating' = TRUE
               /\ proposalTimers' =
                     Append(proposalTimers,
                            [selection |-> selectedClauses,
                             clauses |-> ProposalClausesOf(analysisData),
                             mounted |-> TRUE])
    /\ UNCHANGED <<estimatorVars, uploadVars, navVars, searchVars, audioVars,
                   selectedClauses, generatedProposal, showProposal, lastBuilt>>

\* the proposal text: the selected clauses in the order of the Set, their
\* number and the risk level
ProposalText(selection, clauses) ==
    LET selectedClauseData == [k \in DOMAIN selection |-> clauses[selection[k] + 1]]
    IN  [titles |-> [k \in DOMAIN selection |-> toUpperCase(selectedClauseData[k].title)],
         total |-> Len(selectedClauseData),
         risk |-> IF \E k \in DOMAIN selection : selectedClauseData[k].risk = "high"
                     THEN "High" ELSE "Medium"]

\* clauses[index] is undefined for an index of the selection, and reading
\* its title throws a TypeError
ProposalTextThrows(selection, clauses) ==
    \E k \in DOMAIN selection : selection[k] >= Len(clauses)

\* the 3000 ms timer of generateCounterProposal; timers of equal delay run
\* in the order they were set
ProposalTimerFires ==
    /\ proposalTimers # <<>>
    /\ LET timer == Head(proposalTimers)
       IN  /\ proposalTimers' = Tail(proposalTimers)
           /\ lastBuilt' = Some([selection |-> timer.selection,
                                 clauses |-> timer.clauses])
           /\ IF timer.mounted /\ ~ ProposalTextThrows(timer.selection, timer.clauses)
                 THEN /\ generatedProposal' =
                            Some(ProposalText(timer.selection, timer.clauses))
                      /\ showProposal' = TRUE
                      /\ isGenerating' = FALSE
                 ELSE UNCHANGED <<generatedProposal, showProposal, isGenerating>>
    /\ UNCHANGED <<estimatorVars, uploadVars, navVars, searchVars, audioVars,
                   selectedClauses>>

\* the button "Generate New" of the generated proposal
GenerateNew ==
    /\ route = ProposalPath
    /\ PointerReachesPage
    /\ ~ isLoading
    /\ analysisData # None
    /\ Len(ProposalClausesOf(analysisData)) > 0
    /\ showProposal
    /\ showProposal' = FALSE
    /\ generatedProposal' = None
    /\ UNCHANGED <<estimatorVars, uploadVars, navVars, searchVars, audioVars,
                   selectedClauses, isGenerating, proposalTimers, lastBuilt>>

\* ------------------------------------------------------------------------
\* The pages that read the record, opened from the dashboard
\* ------------------------------------------------------------------------
\* the card of the dashboard that opens the detailed analysis
GoToDetailed ==
    /\ route = "/dashboard"
    /\ PointerReachesPage
    /\ NavigateWithTransition(DetailedPath, "Loading...")
    /\ UNCHANGED <<estimatorVars, uploadVars, route, searchVars, proposalVars,
                   audioVars>>

\* the back button of the detailed analysis
DetailedBack ==
    /\ route = DetailedPath
    /\ PointerReachesPage
    /\ NavigateWithTransition("/dashboard", "Loading...")
    /\ UNCHANGED <<estimatorVars, uploadVars, route, searchVars, proposalVars,
                   audioVars>>

\* the button "Negotiate" of the detailed analysis
GoToCounterProposal ==
    /\ route = DetailedPath
    /\ PointerReachesPage
    /\ NavigateWithTransition(ProposalPath, "Loading...")
    /\ UNCHANGED <<estimatorVars, uploadVars, route, searchVars, proposalVars,
                   audioVars>>

\* the back button of the counter-proposal page: navigate('/dashboard')
ProposalBack ==
    /\ route = ProposalPath
    /\ PointerReachesPage
    /\ route' = "/dashboard"
    /\ RenderPages("/dashboard", analysisData, FALSE)
    /\ UNCHANGED <<estimatorVars, uploadVars, isTransitioning, transitionMessage,
                   navigateTimers, endTimers, retriesLeft>>

\* what the user types in the search box of the detailed analysis
ViewQueries == {<<>>, <<"f", "e", "e">>}

\* the files the user drops on the Index page
ViewFiles == {MsaPdf, AddendumPdf}

InitViews ==
    /\ pageCount = 0
    /\ totalClauses = 0
    /\ InitEstimatorVars
    /\ InitUploadVars
    /\ InitNavVars
    /\ InitSearchVars
    /\ InitAudioVars
    /\ InitProposalVars
    /\ uploadsLeft = MaxUploads
    /\ retriesLeft = 0

NextViews ==
    \/ handleDrop(ViewFiles)
    \/ FetchOk
    \/ FetchNotOk
    \/ SuccessTimerFires
    \/ IndexTimerFires
    \/ TransitionNavigates
    \/ TransitionEnds
    \/ GoToAudio
    \/ AudioBack
    \/ AudioFetchOk
    \/ AudioFetchNotOk
    \/ GoToDetailed
    \/ DetailedBack
    \/ ClausesEffect
    \/ handleSearchChange(ViewQueries)
    \/ GoToCounterProposal
    \/ ProposalBack
    \/ toggleClauseSelection
    \/ generateCounterProposal
    \/ ProposalTimerFires
    \/ GenerateNew

SpecViews == InitViews /\ [][NextViews]_vars

\* ------------------------------------------------------------------------
\* Properties of the time-saved estimate
\* ------------------------------------------------------------------------
\* a / b <= c / d for fractions <<a, b>>, <<c, d>> with positive denominators
FracLeq(x, y) == x[1] * y[2] <= y[1] * x[2]

\* text reads "{h} hr {m} min" where, for S = pages*2 + clauses*1.5 and
\* t = 1 + S/(S+50), h = floor(t) and m is (t - h)*60 rounded to a nearest
\* integer
IsEstimateOf(text, pages, clauses) ==
    LET num == 2 * (4 * pages + 3 * clauses) + 100
        den == (4 * pages + 3 * clauses) + 100
    IN  \E h \in 0..2, m \in 0..60 :
            /\ h * den <= num
            /\ num < (h + 1) * den
            /\ 2 * (m * den - 60 * (num - h * den)) <= den
            /\ 2 * (60 * (num - h * den) - m * den) <= den
            /\ text = ToString(h) \o " hr " \o ToString(m) \o " min"

\* C4: for every pageCount >= 0 and totalClauses >= 0, both copies of
\* calculateTimeSaved return "{hours} hr {minutes} min" with hours the floor of
\* timeSavedHours = 1 + S/(S+50), S = pageCount*2 + totalClauses*1.5, and
\* minutes the rounding of (timeSavedHours - hours)*60; (24, 10) gives
\* "1 hr 33 min" and (0, 0) gives "1 hr 0 min".
C4_TimeSavedFormula ==
    /\ timeSaved # None =>
        /\ IsEstimateOf(timeSaved[1], pageCount, totalClauses)
        /\ (pageCount = 24 /\ totalClauses = 10) => timeSaved[1] = "1 hr 33 min"
        /\ (pageCount = 0 /\ totalClauses = 0) => timeSaved[1] = "1 hr 0 min"
    /\ dashTimeSaved # None =>
        /\ IsEstimateOf(dashTimeSaved[1], pageCount, totalClauses)
        /\ (pageCount = 24 /\ totalClauses = 10) => dashTimeSaved[1] = "1 hr 33 min"
        /\ (pageCount = 0 /\ totalClauses = 0) => dashTimeSaved[1] = "1 hr 0 min"

\* the worked example has been estimated by both copies
C4_Witness ==
    /\ pageCount = 24
    /\ totalClauses = 10
    /\ timeSaved = Some("1 hr 33 min")
    /\ dashTimeSaved = Some("1 hr 33 min")

\* C5: for every pageCount >= 0 and totalClauses >= 0 timeSavedHours lies in
\* [1, 2) and the formatted estimate reads "1 hr {m} min" with m in 0..59.
C5_EstimateWithinOneHourFormat ==
    timeSaved # None =>
        /\ lastHours[1][2] <= lastHours[1][1]
        /\ lastHours[1][1] < 2 * lastHours[1][2]
        /\ \E m \in 0..59 :
               timeSaved[1] = "1 hr " \o ToString(m) \o " min"

\* C6: for a fixed totalClauses, a document with one more page never gets a
\* smaller timeSavedHours (the value before formatting).
C6_MonotoneInPages ==
    (prevHours # None /\ lastHours # None) => FracLeq(prevHours[1], lastHours[1])

\* a longer document has been estimated after a shorter one, and its
\* timeSavedHours is strictly larger
C6_Witness ==
    /\ prevHours # None
    /\ lastHours # None
    /\ pageCount = 25
    /\ ~ FracLeq(lastHours[1], prevHours[1])

\* ------------------------------------------------------------------------
\* Properties of the stored DocumentAnalysis record
\* ------------------------------------------------------------------------
\* the stored record, and the response and file it was built from
Stored == analysisData[1]
Response == lastOk[1].responseData
UploadedFile == lastOk[1].file
HasStored == analysisData # None /\ lastOk # None

\* the clause assessments and the summary fields the backend sent
SentClauses ==
    IF Response.risk_assessment = None THEN <<>>
    ELSE IF Response.risk_assessment[1].clause_assessments = None THEN <<>>
    ELSE Response.risk_assessment[1].clause_assessments[1]
SentTotal ==
    IF Response.risk_summary = None THEN 0
    ELSE IF Response.risk_summary[1].total_clauses_assessed = None THEN 0
    ELSE Response.risk_summary[1].total_clauses_assessed[1]

\* positions of the clauses of a level, and how many there are
PositionsOf(clauses, level) ==
    {i \in DOMAIN clauses : clauses[i].risk_level = level}
CountOf(clauses, level) == Cardinality(PositionsOf(clauses, level))

RECURSIVE SumValues(_)
SumValues(buckets) ==
    IF buckets = <<>> THEN 0 ELSE Head(buckets).value + SumValues(Tail(buckets))

\* the value a consumer reads for a level: the values of the buckets of that
\* name added up, 0 when there is none
ValueOf(buckets, name) ==
    SumValues(SelectSeq(buckets, LAMBDA b : b.name = name))

Max(a, b) == IF a >= b THEN a ELSE b

\* C1: the High, Medium and Low values of the stored risk buckets are the
\* numbers of clause assessments of the response whose risk_level is high,
\* medium and low, and the three add up to the number of clause assessments.
C1_BucketValuesCountClauses ==
    HasStored =>
        /\ ValueOf(Stored.risk_data, "High") = CountOf(SentClauses, "high")
        /\ ValueOf(Stored.risk_data, "Medium") = CountOf(SentClauses, "medium")
        /\ ValueOf(Stored.risk_data, "Low") = CountOf(SentClauses, "low")
        /\ ValueOf(Stored.risk_data, "High") + ValueOf(Stored.risk_data, "Medium")
             + ValueOf(Stored.risk_data, "Low") = Len(SentClauses)

\* C2: every stored record has exactly three risk buckets, in the order High,
\* Medium, Low, a level without clauses having a bucket of value 0 and no
\* impacts.
C2_ThreeBucketsInOrder ==
    HasStored =>
        /\ Len(Stored.risk_data) = 3
        /\ Stored.risk_data[1].name = "High"
        /\ Stored.risk_data[2].name = "Medium"
        /\ Stored.risk_data[3].name = "Low"
        /\ \A i \in 1..3 :
              Stored.risk_data[i].value = 0 => Stored.risk_data[i].impacts = <<>>

\* C3: in every stored record flagged_clauses is the High value plus the
\* Medium value, and is at most total_clauses.
C3_FlaggedIsHighPlusMedium ==
    HasStored =>
        /\ Stored.flagged_clauses
             = ValueOf(Stored.risk_data, "High") + ValueOf(Stored.risk_data, "Medium")
        /\ Stored.flagged_clauses <= Stored.total_clauses

C8_PageCountPositive ==
    HasStored =>
        /\ Stored.page_count > 0
        /\ IF Response.page_count = None THEN Stored.page_count = 24
           ELSE IF Response.page_count[1] > 0
                THEN Stored.page_count = Response.page_count[1]
                ELSE Stored.page_count = 24

\* C9: the stored total_clauses is the number of clause assessments of the
\* response, or the backend's total_clauses_assessed when that is larger; it
\* is never below the number of clause assessments nor below the sum of the
\* bucket values.
C9_TotalCoversClauses ==
    HasStored =>
        /\ Stored.total_clauses = Max(Len(SentClauses), SentTotal)
        /\ Stored.total_clauses >= Len(SentClauses)
        /\ Stored.total_clauses >= SumValues(Stored.risk_data)

LevelOfBucket(name) ==
    CASE name = "High" -> "high" [] name = "Medium" -> "medium" [] name = "Low" -> "low"

\* C10: in each stored bucket the impacts are the clauses of the bucket's
\* level in source order, one each; the k-th (from 0, within the bucket) has
\* id "{level}-{k}", ids do not repeat within the bucket, and the description
\* is the clause's reasoning when non-empty and the level's default otherwise.
C10_ImpactsFollowClauses ==
    HasStored =>
        \A b \in DOMAIN Stored.risk_data :
            LET bucket == Stored.risk_data[b]
                level == LevelOfBucket(bucket.name)
                at == PositionsOf(SentClauses, level)
            IN  /\ Len(bucket.impacts) = Cardinality(at)
                /\ \A i \in at :
                      LET k == Cardinality({j \in at : j < i})
                          impact == bucket.impacts[k + 1]
                          reasoning == SentClauses[i].reasoning
                      IN  /\ impact.id = level \o "-" \o ToString(k)
                          /\ impact.risk = level
                          /\ impact.description =
                               IF reasoning # None /\ reasoning # Some("")
                                  THEN reasoning[1]
                                  ELSE CASE level = "high" -> "High risk clause identified"
                                         [] level = "medium" -> "Medium risk clause identified"
                                         [] level = "low" -> "Low risk clause identified"
                /\ \A x, y \in DOMAIN bucket.impacts :
                      bucket.impacts[x].id = bucket.impacts[y].id => x = y

\* a High bucket was stored whose only clause is the second of the response,
\* after a medium clause without reasoning
C10_Witness ==
    /\ HasStored
    /\ Len(SentClauses) = 2
    /\ SentClauses[1].risk_level = "medium"
    /\ SentClauses[1].reasoning = None
    /\ SentClauses[2].risk_level = "high"
    /\ SentClauses[2].reasoning # None
    /\ Len(Stored.risk_data) = 2
    /\ Len(Stored.risk_data[1].impacts) = 1
    /\ Len(Stored.risk_data[2].impacts) = 1
    /\ Stored.risk_data[1].impacts[1].id = "high-0"
    /\ Stored.risk_data[2].impacts[1].description = "Medium risk clause identified"

\* ------------------------------------------------------------------------
\* Risk levels outside high, medium and low
\* ------------------------------------------------------------------------
\* the levels the buckets and the risk order know
KnownRiskLevels == {"high", "medium", "low"}

\* C11: a response with a clause assessment whose risk_level is not high,
\* medium or low is treated as an error: the upload that received it ends
\* with uploadStatus "error" and stores no record, so the clause is neither
\* left out of the buckets nor shown under another level.
C11_UnknownRiskLevelIsError ==
    (/\ lastOk # None
     /\ \E i \in DOMAIN SentClauses :
            SentClauses[i].risk_level \notin KnownRiskLevels)
        => /\ analysisData = None
           /\ uploadStatus = "error"

\* ------------------------------------------------------------------------
\* Outcomes of an upload
\* ------------------------------------------------------------------------
\* C12: an upload answered with status 200 is never treated as an upload
\* error, whatever the shape of the body: the step that takes the response
\* stores a record and shows "success".
C12_Status200IsNeverAnError ==
    [][lastOk' # lastOk =>
          /\ lastFetch' = "ok"
          /\ analysisData' # None
          /\ UploadMounted => uploadStatus' = "success"]_vars

PdfType == "application/pdf"
FailedOutcomes == {"notok", "threw"}

\* C16: two uploads in flight are both outstanding, a new upload neither
\* cancels nor replaces a request, and after a response is taken the store
\* holds the record of that response: with two successes the one that
\* resolved last, whichever was issued first.
C16_LastResolvedUploadIsStored ==
    /\ [](lastFetch = "ok" =>
            /\ analysisData # None
            /\ analysisData[1] =
                 processResponseData(lastOk[1].responseData, lastOk[1].file,
                                     analysisData[1].upload_time))
    /\ [][(uploadsLeft' < uploadsLeft /\ lastPick'[1].type = PdfType) =>
             requests' = Append(requests, lastPick'[1])]_vars
    /\ [][Len(requests') < Len(requests) =>
             \E i \in DOMAIN requests : requests' = RemoveAt(requests, i)]_vars

\* lease.pdf was issued first and will.pdf second, both succeeded, and the
\* response for lease.pdf resolved last: its record is stored
C16_Witness ==
    /\ lastPick = Some(WillPdf)
    /\ uploadsLeft = MaxUploads - 2
    /\ requests = <<>>
    /\ navTimers = 2
    /\ lastFetch = "ok"
    /\ lastOk # None
    /\ lastOk[1].file = LeasePdf
    /\ analysisData # None
    /\ analysisData[1].document_name = "Lease Agreement"

\* C17: the step in which an upload fails (non-2xx status or a throw) leaves
\* analysisData as it was, sets isLoading to false, shows "error" with the
\* file input reset, and removes the request; a request is only ever issued
\* by a file the user picks, never again on its own.
C17_FailedUploadKeepsRecord ==
    /\ [][(Len(requests') < Len(requests) /\ lastFetch' \in FailedOutcomes) =>
             /\ analysisData' = analysisData
             /\ isLoading' = FALSE
             /\ \E i \in DOMAIN requests : requests' = RemoveAt(requests, i)
             /\ UploadMounted => (uploadStatus' = "error" /\ fileInput' = "")]_vars
    /\ [][Len(requests') > Len(requests) => uploadsLeft' < uploadsLeft]_vars

\* an upload failed after another had stored its record
C17_Witness ==
    /\ UploadMounted
    /\ lastFetch \in FailedOutcomes
    /\ requests = <<>>
    /\ analysisData # None
    /\ uploadStatus = "error"
    /\ fileInput = ""
    /\ isLoading = FALSE

\* C18: after an upload failed, once no request is in flight and no timer
\* is pending, the component is "idle" again, the state in which a click
\* opens the file picker.
C18_FailureSettlesToIdle ==
    (/\ UploadMounted
     /\ lastFetch \in FailedOutcomes
     /\ requests = <<>>
     /\ idleTimers = 0
     /\ navTimers = 0
     /\ indexNavTimers = 0
     /\ navigateTimers = <<>>
     /\ endTimers = 0)
        => uploadStatus = "idle"

AudioShown == route = AudioPath

\* a step of the mounted audio page in which a fetch failed
AudioFetchFailed ==
    /\ AudioShown
    /\ route' = AudioPath
    /\ Len(audioRequests') < Len(audioRequests)
    /\ lastAudioFetch' \in FailedOutcomes

\* C20: a failed explain-document fetch sets audioError and lowers
\* isLoadingAudio; the error is only cleared by the start of a fetch; a
\* fetch only starts when an upload stored a record or the user clicks the
\* retry button, which sends the record's gcs_uri; and whenever the error is
\* shown the retry button is shown with it.
C20_AudioErrorKeepsRetry ==
    /\ [][AudioFetchFailed => (audioError' # None /\ isLoadingAudio' = FALSE)]_vars
    /\ [][(AudioShown /\ route' = AudioPath /\ audioError # None /\ audioError' = None)
             => Len(audioRequests') > Len(audioRequests)]_vars
    /\ [][(AudioShown /\ route' = AudioPath /\ Len(audioRequests') > Len(audioRequests))
             => \/ Len(requests') < Len(requests)
                \/ /\ retriesLeft' < retriesLeft
                   /\ audioRequests' = Append(audioRequests, GcsUriOf(analysisData))]_vars
    /\ []((AudioShown /\ audioError # None) => RetryShown)

\* ------------------------------------------------------------------------
\* Properties of the clause list of the detailed view
\* ------------------------------------------------------------------------
Range(seq) == {seq[i] : i \in DOMAIN seq}

\* where the clause stands in the list
PositionIn(list, clause) == CHOOSE i \in DOMAIN list : list[i] = clause

\* shown is ordered high, medium, low, and clauses of the same risk stand in
\* the order they have in source
OrderedByRisk(shown, source) ==
    \A i, j \in DOMAIN shown :
        i < j =>
            /\ (HasRiskOrder(shown[i].risk) /\ HasRiskOrder(shown[j].risk))
                  => riskOrder(shown[i].risk) <= riskOrder(shown[j].risk)
            /\ shown[i].risk = shown[j].risk
                  => PositionIn(source, shown[i]) < PositionIn(source, shown[j])

\* shown holds each clause of source once and nothing else
SameClauses(shown, source) ==
    /\ Len(shown) = Len(source)
    /\ Range(shown) = Range(source)

\* the words of a query: its maximal runs of characters other than the space
Words(query) == {w \in Range(split(query)) : w # <<>>}

\* the clause's text contains a word of the lower-cased query
MatchesQuery(clause, query) ==
    \E w \in Words(toLowerCase(query)) : includes(searchableText(clause), w)

C14_SearchReturnsMatchingClauses ==
    [][(searchQuery' # searchQuery /\ trim(searchQuery') # <<>>) =>
          /\ \A c \in Range(filteredClauses') : MatchesQuery(c, searchQuery')
          /\ \A c \in Range(detailedClauses') :
                MatchesQuery(c, searchQuery') => c \in Range(filteredClauses')
          /\ Range(filteredClauses') \subseteq Range(detailedClauses')
          /\ OrderedByRisk(filteredClauses', detailedClauses')]_vars

SuppliedGcsUri ==
    IF OrString(Response.gcs_uri, "") # "" THEN Response.gcs_uri[1]
    ELSE IF Response.risk_assessment = None THEN ""
    ELSE OrString(Response.risk_assessment[1].gcs_uri, "")

\* C21: the gcs_uri the audio page reads from the stored record, which is the
\* file_uri of its explain-document request, is the gcs_uri the upload
\* response supplied, at the top level or inside risk_assessment; and every
\* explain-document request in flight carries a non-empty file_uri.
C21_FileUriIsSuppliedGcsUri ==
    /\ HasStored => GcsUriOf(analysisData) = SuppliedGcsUri
    /\ \A i \in DOMAIN audioRequests : audioRequests[i] # ""

\* ------------------------------------------------------------------------
\* The stored record is replaced as a whole
\* ------------------------------------------------------------------------
\* C22: a step changes analysisData only when it is the response.ok branch of
\* an upload, and the record stored by it is the one processResponseData
\* builds from that response and file alone, whatever was stored before; the
\* search, the sort, the clause selection, the proposal generation, the audio
\* fetch and the navigation leave analysisData as it is.
C22_RecordChangesByReplacement ==
    [][analysisData' # analysisData =>
          /\ lastFetch' = "ok"
          /\ lastOk' # None
          /\ \E now \in Times :
                analysisData' =
                    Some(processResponseData(lastOk'[1].responseData,
                                             lastOk'[1].file, now))]_vars

\* a proposal was built from the two clauses of msa.pdf and the record of
\* addendum.pdf has replaced the one of msa.pdf since
C22_Witness ==
    /\ route = ProposalPath
    /\ lastBuilt # None
    /\ Len(lastBuilt[1].clauses) = 2
    /\ HasStored
    /\ Stored.document_name = "addendum.pdf"

\* ------------------------------------------------------------------------
\* The selection of the counter-proposal page
\* ------------------------------------------------------------------------
\* the indexes of a selection
IndexesOf(selection) == {selection[k] : k \in DOMAIN selection}

\* C30: when the timer of generateCounterProposal builds the proposal text,
\* every selected index is an index of the high/medium clause list it reads;
\* toggling an index twice gives the selection there was; and no timer is set
\* for an empty selection.
C30_SelectedIndexesAreValid ==
    /\ lastBuilt # None =>
          \A k \in DOMAIN lastBuilt[1].selection :
             lastBuilt[1].selection[k] \in 0..(Len(lastBuilt[1].clauses) - 1)
    /\ \A index \in 0..MaxClauses :
          IndexesOf(ToggleIndex(ToggleIndex(selectedClauses, index), index))
             = IndexesOf(selectedClauses)
    /\ \A k \in DOMAIN proposalTimers : Len(proposalTimers[k].selection) > 0

\* ------------------------------------------------------------------------
\* The dashboard and the pie chart
\* ------------------------------------------------------------------------
\* C23: a record stored from a response without clause assessments has the
\* three buckets High, Medium and Low, each with value 0 and no impacts; the
\* dashboard's total of it is 0; and the pie chart reaches its division by
\* totalImpacts only when totalImpacts is greater than 0.
C23_ZeroStateRecordAndConsumers ==
    /\ (HasStored /\ SentClauses = <<>>) =>
          /\ Len(Stored.risk_data) = 3
          /\ \A i \in DOMAIN Stored.risk_data :
                Stored.risk_data[i].value = 0 /\ Stored.risk_data[i].impacts = <<>>
          /\ dashboardTotalImpacts(analysisData) = 0
    /\ PieChartDivides(dashboardRiskData(analysisData)) =>
          pieTotalImpacts(dashboardRiskData(analysisData)) > 0

\* ------------------------------------------------------------------------
\* The search result and the effect on the clause list
\* ------------------------------------------------------------------------
\* the test of performSemanticSearch's filter: some term of the query is
\* inside the clause's text
PassesFilter(clause, query) ==
    LET searchTerms == split(toLowerCase(query))
    IN  \E k \in DOMAIN searchTerms : includes(searchableText(clause), searchTerms[k])

\* C24: on the detailed-analysis view, while the search query is not blank,
\* every clause of filteredClauses passes the filter of the search for that
\* query, whatever search inputs, renders and effect runs came before.
C24_SearchResultIsKept ==
    (route = DetailedPath /\ trim(searchQuery) # <<>>) =>
        \A i \in DOMAIN filteredClauses : PassesFilter(filteredClauses[i], searchQuery)

\* ------------------------------------------------------------------------
\* Uploads that overlap
\* ------------------------------------------------------------------------
\* C25: the shared isLoading flag is true whenever an upload-document request
\* is in flight.
C25_LoadingWhileUploadInFlight ==
    requests # <<>> => isLoading

\* C26: while an upload request is in flight and the upload component is
\* mounted, a step that neither starts nor completes an upload, such as a
\* timer of an earlier rejected file or of an earlier successful upload,
\* leaves uploadStatus "uploading", starts no navigation and does not change
\* the page.
C26_TimersLeaveUploadAlone ==
    [][(/\ UploadMounted
        /\ requests # <<>>
        /\ uploadStatus = "uploading"
        /\ requests' = requests
        /\ uploadsLeft' = uploadsLeft)
          => /\ uploadStatus' = "uploading"
             /\ navigateTimers' = navigateTimers
             /\ route' = route]_vars

\* ------------------------------------------------------------------------
\* Transitions that overlap
\* ------------------------------------------------------------------------
\* C27: isTransitioning is true as long as a call of navigateWithTransition
\* has not navigated yet, and once no timer of any call is pending it is
\* false and transitionMessage is "Loading..." again.
C27_LoaderCoversEveryNavigation ==
    /\ navigateTimers # <<>> => isTransitioning
    /\ (navigateTimers = <<>> /\ endTimers = 0) =>
          (~ isTransitioning /\ transitionMessage = "Loading...")

\* C28: for every stored record the dashboard displays the record's
\* time_saved, total_clauses and flagged_clauses.
C28_DashboardShowsStoredTotals ==
    HasStored =>
        /\ dashboardTimeSaved(analysisData) = Stored.time_saved
        /\ dashboardTotalClauses(analysisData) = Stored.total_clauses
        /\ dashboardFlaggedClauses(analysisData) = Stored.flagged_clauses

\* ------------------------------------------------------------------------
\* The audio shown and the record
\* ------------------------------------------------------------------------
\* C29: on the audio page, when audioData is there and no fetch is loading,
\* audioData is the explain-document response for the gcs_uri of the stored
\* record.
C29_AudioIsOfCurrentRecord ==
    (route = AudioPath /\ audioData # None /\ ~ isLoadingAudio) =>
        audioData[1].audio_url = AudioUrlOf(GcsUriOf(analysisData))

====
